---- MODULE Spec2Model ----
(***************************************************************************)
(* A model of grouper/permissions.py: ownership resolution of permission   *)
(* grants and the permission-request workflow (create_request,             *)
(* update_request, grant_permission) running against one persistent store. *)
(*                                                                         *)
(* Strings of the program (permission names, arguments, glob patterns) are *)
(* sequences of one-character strings, so that splitting, concatenation,   *)
(* glob matching and ordering are computed character by character.         *)
(***************************************************************************)
EXTENDS Integers, Sequences, FiniteSets, TLC

VARIABLES
    grants,         \* PermissionMap rows, in insertion (id) order
    requests,       \* PermissionRequest rows; a request's id is its index
    statusChanges,  \* PermissionRequestStatusChange rows; id = index
    comments,       \* Comment rows attached to status-change rows
    audited,        \* names of the permissions whose audited flag is set
    nonAuditors,    \* groups with at least one controller who is no auditor
    pc,             \* per worker: the place its current call has reached
    call,           \* per worker: arguments and locals of its current call
    err,            \* per worker: the exception its current call raised
    eff             \* per worker: the effects its current call has had, in order

vars == <<grants, requests, statusChanges, comments, audited, nonAuditors,
          pc, call, err, eff>>

(***************************************************************************)
(* Bounds of the model.                                                    *)
(***************************************************************************)
MaxRequests == 2
MaxChanges == 4

(***************************************************************************)
(* Characters, in code-point order, and the ordering of strings.           *)
(***************************************************************************)
Alphabet == <<" ", "*", "/", "A", "G", "a", "b", "d", "p", "x", "y">>

Ord(c) == CHOOSE i \in 1..Len(Alphabet) : Alphabet[i] = c

RECURSIVE StrLess(_, _)
StrLess(s, t) ==
    IF t = <<>> THEN FALSE
    ELSE IF s = <<>> THEN TRUE
    ELSE IF Head(s) = Head(t) THEN StrLess(Tail(s), Tail(t))
    ELSE Ord(Head(s)) < Ord(Head(t))

None == "None"

(***************************************************************************)
(* grouper.constants and grouper.util, which permissions.py imports.       *)
(***************************************************************************)
PERMISSION_ADMIN == <<"A">>
PERMISSION_GRANT == <<"G">>

\* ARGUMENT_VALIDATION: a restricted character set, no free text.
ArgumentChars == {"*", "/", "A", "G", "a", "b", "d", "p", "x", "y"}

ARGUMENT_VALIDATION(argument) ==
    \A i \in 1..Len(argument) : argument[i] \in ArgumentChars

RECURSIVE matches_glob(_, _)
matches_glob(glob, text) ==
    IF glob = <<>> THEN text = <<>>
    ELSE IF Head(glob) = "*"
         THEN \/ matches_glob(Tail(glob), text)
              \/ (text # <<>> /\ matches_glob(glob, Tail(text)))
    ELSE /\ text # <<>>
         /\ Head(text) = Head(glob)
         /\ matches_glob(Tail(glob), Tail(text))

(***************************************************************************)
(* The catalog and the groups (rows the workflow reads and never writes).  *)
(***************************************************************************)
pa == <<"p", "a">>
pb == <<"p", "b">>
pd == <<"p", "d">>

\* Permission rows: name and enabled flag (the audited flag is a variable).
PermissionRows ==
    << [name |-> pb, enabled |-> TRUE],
       [name |-> PERMISSION_GRANT, enabled |-> TRUE],
       [name |-> pd, enabled |-> FALSE],
       [name |-> pa, enabled |-> TRUE],
       [name |-> PERMISSION_ADMIN, enabled |-> TRUE] >>

\* Group rows, in id order.
GroupRows ==
    << [name |-> "g1", enabled |-> TRUE, email_address |-> None, members |-> {"u1"}],
       [name |-> "adm", enabled |-> TRUE, email_address |-> "adm@", members |-> {"u2"}],
       [name |-> "o1", enabled |-> TRUE, email_address |-> None, members |-> {"u1", "u2"}],
       [name |-> "o2", enabled |-> TRUE, email_address |-> "o2@", members |-> {}],
       [name |-> "off", enabled |-> FALSE, email_address |-> None, members |-> {"u2"}] >>

GroupNames == {GroupRows[i].name : i \in 1..Len(GroupRows)}

GroupRow(g) == GroupRows[CHOOSE i \in 1..Len(GroupRows) : GroupRows[i].name = g]

Users == {"u1", "u2"}

(***************************************************************************)
(* Sequence helpers.                                                       *)
(***************************************************************************)
Range(s) == {s[i] : i \in 1..Len(s)}

RECURSIVE Flatten(_)
Flatten(ss) == IF ss = <<>> THEN <<>> ELSE Head(ss) \o Flatten(Tail(ss))

\* Python's stable sorted(): s sorted by the field key of its elements.
RECURSIVE InsertSorted(_, _)
InsertSorted(x, s) ==
    IF s = <<>> THEN <<x>>
    ELSE IF StrLess(x.key, Head(s).key) THEN <<x>> \o s
    ELSE <<Head(s)>> \o InsertSorted(x, Tail(s))

RECURSIVE sorted(_)
sorted(s) ==
    IF s = <<>> THEN <<>>
    ELSE InsertSorted(s[Len(s)], sorted(SubSeq(s, 1, Len(s) - 1)))

(***************************************************************************)
(* get_all_permissions: the enabled permissions (or all), ordered by name. *)
(***************************************************************************)
get_all_permissions(include_disabled) ==
    LET rows == SelectSeq(PermissionRows, LAMBDA p : include_disabled \/ p.enabled)
        keyed == [i \in 1..Len(rows) |-> [key |-> rows[i].name, val |-> rows[i]]]
        ordered == sorted(keyed)
    IN [i \in 1..Len(ordered) |-> ordered[i].val]

(***************************************************************************)
(* filter_grantable_permissions: the (permission, argument) pairs a list   *)
(* of PERMISSION_GRANT grants makes grantable.                             *)
(***************************************************************************)
\* split cutting at the last "/" instead of the first.
split_at_last(s) ==
    IF \E i \in 1..Len(s) : s[i] = "/"
    THEN LET k == CHOOSE i \in 1..Len(s) :
                      s[i] = "/" /\ \A j \in (i + 1)..Len(s) : s[j] # "/"
         IN <<SubSeq(s, 1, k - 1), SubSeq(s, k + 1, Len(s))>>
    ELSE <<s>>

\* str.split("/", 1)
split(s) ==
    IF \E i \in 1..Len(s) : s[i] = "/"
    THEN LET k == CHOOSE i \in 1..Len(s) :
                      s[i] = "/" /\ \A j \in 1..(i - 1) : s[j] # "/"
         IN <<SubSeq(s, 1, k - 1), SubSeq(s, k + 1, Len(s))>>
    ELSE <<s>>

filter_grantable_permissions(grantList, all_permissions) ==
    LET perGrant(grant) ==
            LET grantable == split(grant.argument)
                hits == SelectSeq(all_permissions,
                                  LAMBDA p : matches_glob(grantable[1], p.name))
            IN [i \in 1..Len(hits) |->
                   [perm |-> hits[i],
                    arg |-> IF Len(grantable) > 1 THEN grantable[2] ELSE <<"*">>]]
        result == Flatten([i \in 1..Len(grantList) |-> perGrant(grantList[i])])
        keyed == [i \in 1..Len(result) |->
                     [key |-> result[i].perm.name \o result[i].arg, val |-> result[i]]]
        ordered == sorted(keyed)
    IN [i \in 1..Len(ordered) |-> ordered[i].val]

(***************************************************************************)
(* get_owners_by_grantable_permission.  The map {permission: {argument:    *)
(* [owner, ...]}} is kept as the sequence of its (perm, arg, owner)        *)
(* entries in the order the code appends them; GLOBAL_OWNERS is the key of *)
(* the synthetic bucket.                                                   *)
(***************************************************************************)
GLOBAL_OWNERS == <<"GLOBAL_OWNERS">>

\* get_plugin_proxy().get_owner_by_arg_by_perm(session): the entries of the
\* plugins' maps.  A plugin names permissions by name, whatever their rows say.
PluginOwners ==
    << [perm |-> pb, arg |-> <<"y">>, owner |-> "o2"],
       [perm |-> pb, arg |-> <<"*">>, owner |-> "o2"],
       [perm |-> pd, arg |-> <<"x">>, owner |-> "o2"] >>

\* merge_plugin_results where a plugin's owners replace the owners recorded
\* for the same (permission, argument).
merge_plugin_results_overriding(owners_by_arg_by_perm, res) ==
    SelectSeq(owners_by_arg_by_perm,
              LAMBDA e : ~\E j \in 1..Len(res) :
                             res[j].perm = e.perm /\ res[j].arg = e.arg) \o res

\* Lines 362-365: owners_by_arg_by_perm[perm][arg] += owners.
merge_plugin_results(owners_by_arg_by_perm, res) == owners_by_arg_by_perm \o res

\* get_owners_by_grantable_permission without the continue of line 352: a
\* group with PERMISSION_ADMIN is recorded for its PERMISSION_GRANT grants too.
get_owners_by_grantable_permission_without_continue(grantRows, separate_global) ==
    LET all_permissions == get_all_permissions(FALSE)
        all_groups == SelectSeq(GroupRows, LAMBDA g : g.enabled)
        perGroup(group) ==
            LET group_permissions == SelectSeq(grantRows, LAMBDA r : r.group = group.name)
                grantList == SelectSeq(group_permissions,
                                       LAMBDA r : r.name = PERMISSION_GRANT)
                pairs == filter_grantable_permissions(grantList, all_permissions)
            IN (IF \E i \in 1..Len(group_permissions) :
                       group_permissions[i].name = PERMISSION_ADMIN
                THEN [i \in 1..Len(all_permissions) |->
                         [perm |-> all_permissions[i].name, arg |-> <<"*">>,
                          owner |-> group.name]]
                     \o (IF separate_global
                         THEN <<[perm |-> GLOBAL_OWNERS, arg |-> <<"*">>,
                                 owner |-> group.name]>>
                         ELSE <<>>)
                ELSE <<>>)
               \o [i \in 1..Len(pairs) |->
                      [perm |-> pairs[i].perm.name, arg |-> pairs[i].arg,
                       owner |-> group.name]]
    IN merge_plugin_results(
           Flatten([i \in 1..Len(all_groups) |-> perGroup(all_groups[i])]),
           PluginOwners)

get_owners_by_grantable_permission(grantRows, separate_global) ==
    LET all_permissions == get_all_permissions(FALSE)
        all_groups == SelectSeq(GroupRows, LAMBDA g : g.enabled)
        perGroup(group) ==
            LET group_permissions == SelectSeq(grantRows, LAMBDA r : r.group = group.name)
            IN IF \E i \in 1..Len(group_permissions) :
                      group_permissions[i].name = PERMISSION_ADMIN
               THEN [i \in 1..Len(all_permissions) |->
                        [perm |-> all_permissions[i].name, arg |-> <<"*">>,
                         owner |-> group.name]]
                    \o (IF separate_global
                        THEN <<[perm |-> GLOBAL_OWNERS, arg |-> <<"*">>,
                                owner |-> group.name]>>
                        ELSE <<>>)
               ELSE LET grantList == SelectSeq(group_permissions,
                                               LAMBDA r : r.name = PERMISSION_GRANT)
                        pairs == filter_grantable_permissions(grantList, all_permissions)
                    IN [i \in 1..Len(pairs) |->
                           [perm |-> pairs[i].perm.name, arg |-> pairs[i].arg,
                            owner |-> group.name]]
    IN merge_plugin_results(
           Flatten([i \in 1..Len(all_groups) |-> perGroup(all_groups[i])]),
           PluginOwners)

\* owners_by_arg_by_perm[perm][arg]
OwnersOf(owners_by_arg_by_perm, perm, arg) ==
    LET hits == SelectSeq(owners_by_arg_by_perm,
                          LAMBDA e : e.perm = perm /\ e.arg = arg)
    IN [i \in 1..Len(hits) |-> hits[i].owner]

(***************************************************************************)
(* get_owner_arg_list: the (owner, argument) pairs whose argument pattern  *)
(* matches the requested argument.                                         *)
(***************************************************************************)
\* The keys of owners_by_arg_by_perm[perm], in the order they were inserted.
RECURSIVE Distinct(_)
Distinct(s) ==
    IF s = <<>> THEN <<>>
    ELSE LET front == Distinct(SubSeq(s, 1, Len(s) - 1))
         IN IF s[Len(s)] \in Range(front) THEN front ELSE Append(front, s[Len(s)])

ArgsOf(owners_by_arg_by_perm, perm) ==
    LET hits == SelectSeq(owners_by_arg_by_perm, LAMBDA e : e.perm = perm)
    IN Distinct([i \in 1..Len(hits) |-> hits[i].arg])

\* get_owner_arg_list looking under every permission of the map.
get_owner_arg_list_any_permission(permission, argument, owners_by_arg_by_perm) ==
    LET hits == SelectSeq(owners_by_arg_by_perm,
                          LAMBDA e : e.perm # GLOBAL_OWNERS /\ matches_glob(e.arg, argument))
    IN [j \in 1..Len(hits) |-> <<hits[j].owner, hits[j].arg>>]

\* get_owner_arg_list comparing the argument for equality, not as a glob.
get_owner_arg_list_exact(permission, argument, owners_by_arg_by_perm) ==
    LET owners == OwnersOf(owners_by_arg_by_perm, permission, argument)
    IN [j \in 1..Len(owners) |-> <<owners[j], argument>>]

get_owner_arg_list(permission, argument, owners_by_arg_by_perm) ==
    LET args == ArgsOf(owners_by_arg_by_perm, permission)
        perArg(arg) ==
            IF matches_glob(arg, argument)
            THEN LET owners == OwnersOf(owners_by_arg_by_perm, permission, arg)
                 IN [j \in 1..Len(owners) |-> <<owners[j], arg>>]
            ELSE <<>>
    IN Flatten([i \in 1..Len(args) |-> perArg(args[i])])

(***************************************************************************)
(* The inputs the calls are made with.                                     *)
(***************************************************************************)
Workers == {"w1", "w2"}

ax == <<"x">>
ay == <<"y">>
aFree == <<"x", " ">>   \* free text: outside ARGUMENT_VALIDATION

RequestGroups == {"g1"}
RequestPermissions == {pa}
RequestArguments == {ax, ay, aFree}
REQUEST_STATUS_CHOICES == {"pending", "actioned", "cancelled"}
Actors == {"u2"}

\* The grants made directly (not by the workflow) while the model runs.
DirectGrants ==
    { [group |-> "g1", name |-> pa, argument |-> ay],
      [group |-> "adm", name |-> PERMISSION_ADMIN, argument |-> <<>>] }

\* The grants in the store when the model starts: o1 may grant p*/x*.
InitialGrants ==
    << [group |-> "o1", name |-> PERMISSION_GRANT,
        argument |-> <<"p", "*", "/", "x", "*">>] >>

NoCall ==
    [op |-> None, user |-> None, group |-> None, permission |-> None,
     argument |-> None, request |-> 0, status |-> None, new_status |-> None,
     owner_arg_list |-> <<>>, global_owners |-> <<>>, mail_to |-> {},
     input |-> <<>>, result |-> <<>>]

Init ==
    /\ grants = InitialGrants
    /\ requests = <<>>
    /\ statusChanges = <<>>
    /\ comments = <<>>
    /\ audited = {pa}
    /\ nonAuditors = {}
    /\ pc = [w \in Workers |-> "idle"]
    /\ call = [w \in Workers |-> NoCall]
    /\ err = [w \in Workers |-> None]
    /\ eff = [w \in Workers |-> <<>>]

(***************************************************************************)
(* Collaborators of the workflow.                                          *)
(***************************************************************************)
\* Group.my_permissions(): the group's grants of enabled permissions.
my_permissions(group) ==
    SelectSeq(grants, LAMBDA r :
        /\ r.group = group
        /\ \E i \in 1..Len(PermissionRows) :
               PermissionRows[i].name = r.name /\ PermissionRows[i].enabled)

\* grouper.audit.assert_controllers_are_auditors: TRUE when it raises.
UserNotAuditor(group) == group \in nonAuditors

\* grant_permission on a PermissionMap without its uniqueness constraint.
grant_permission_without_unique(rows, group_id, permission_id, argument) ==
    LET mapping == [group |-> group_id, name |-> permission_id, argument |-> argument]
    IN IF ~ARGUMENT_VALIDATION(argument)
       THEN [rows |-> rows, raised |-> "AssertionError"]
       ELSE [rows |-> Append(rows, mapping), raised |-> None]

\* The rows grant_permission leaves in PermissionMap and the exception it
\* raises: the argument is asserted to match ARGUMENT_VALIDATION, and the
\* insert fails when the group already has the (permission, argument).
grant_permission(rows, group_id, permission_id, argument) ==
    LET mapping == [group |-> group_id, name |-> permission_id, argument |-> argument]
    IN IF ~ARGUMENT_VALIDATION(argument)
       THEN [rows |-> rows, raised |-> "AssertionError"]
       ELSE IF mapping \in Range(rows)
       THEN [rows |-> rows, raised |-> "IntegrityError"]
       ELSE [rows |-> Append(rows, mapping), raised |-> None]

(***************************************************************************)
(* create_request.  Its validation reads the store (lines 483-514); the    *)
(* rows are added and the approvers notified afterwards (lines 516-583).   *)
(***************************************************************************)
\* Lines 484-486: the group already has the (permission, argument) pair.
already_granted(group, permission, argument) ==
    \E i \in 1..Len(my_permissions(group)) :
        /\ my_permissions(group)[i].name = permission
        /\ my_permissions(group)[i].argument = argument

\* Lines 489-498: the number of pending requests for the triple.
existing_count(group, permission, argument) ==
    Cardinality({i \in 1..Len(requests) :
        /\ requests[i].group = group
        /\ requests[i].permission = permission
        /\ requests[i].argument = argument
        /\ requests[i].status = "pending"})

\* create_request_check without the check for a pending request.
create_request_check_no_pending(group, permission, argument, owner_arg_list) ==
    IF already_granted(group, permission, argument)
    THEN [raised |-> "RequestAlreadyGranted", auditors |-> FALSE]
    ELSE IF owner_arg_list = <<>>
    THEN [raised |-> "NoOwnersAvailable", auditors |-> FALSE]
    ELSE IF permission \in audited
    THEN [raised |-> IF UserNotAuditor(group) THEN "UserNotAuditor" ELSE None,
          auditors |-> TRUE]
    ELSE [raised |-> None, auditors |-> FALSE]

\* create_request_check with the check for a pending request made first.
create_request_check_pending_first(group, permission, argument, owner_arg_list) ==
    IF existing_count(group, permission, argument) > 0
    THEN [raised |-> "RequestAlreadyExists", auditors |-> FALSE]
    ELSE IF already_granted(group, permission, argument)
    THEN [raised |-> "RequestAlreadyGranted", auditors |-> FALSE]
    ELSE IF owner_arg_list = <<>>
    THEN [raised |-> "NoOwnersAvailable", auditors |-> FALSE]
    ELSE IF permission \in audited
    THEN [raised |-> IF UserNotAuditor(group) THEN "UserNotAuditor" ELSE None,
          auditors |-> TRUE]
    ELSE [raised |-> None, auditors |-> FALSE]

\* create_request_check asserting the auditors of every permission.
create_request_check_always_audits(group, permission, argument, owner_arg_list) ==
    IF already_granted(group, permission, argument)
    THEN [raised |-> "RequestAlreadyGranted", auditors |-> FALSE]
    ELSE IF existing_count(group, permission, argument) > 0
    THEN [raised |-> "RequestAlreadyExists", auditors |-> FALSE]
    ELSE IF owner_arg_list = <<>>
    THEN [raised |-> "NoOwnersAvailable", auditors |-> FALSE]
    ELSE [raised |-> IF UserNotAuditor(group) THEN "UserNotAuditor" ELSE None,
          auditors |-> TRUE]

\* The validation of create_request (lines 483-514): the exception it raises
\* (or None) and whether it got to call assert_controllers_are_auditors.
create_request_check(group, permission, argument, owner_arg_list) ==
    IF already_granted(group, permission, argument)
    THEN [raised |-> "RequestAlreadyGranted", auditors |-> FALSE]
    ELSE IF existing_count(group, permission, argument) > 0
    THEN [raised |-> "RequestAlreadyExists", auditors |-> FALSE]
    ELSE IF owner_arg_list = <<>>
    THEN [raised |-> "NoOwnersAvailable", auditors |-> FALSE]
    ELSE IF permission \in audited
    THEN [raised |-> IF UserNotAuditor(group) THEN "UserNotAuditor" ELSE None,
          auditors |-> TRUE]
    ELSE [raised |-> None, auditors |-> FALSE]

\* mailto_owner_arg_list without tiers: every matched owner is notified.
mailto_owner_arg_list_all(owner_arg_list, global_owners) == owner_arg_list

\* The owners create_request notifies (lines 557-568).
mailto_owner_arg_list(owner_arg_list, global_owners) ==
    LET non_wildcard_owners == SelectSeq(owner_arg_list, LAMBDA grant : grant[2] # <<"*">>)
        non_global_owners ==
            SelectSeq(owner_arg_list, LAMBDA grant : grant[1] \notin Range(global_owners))
    IN IF non_wildcard_owners # <<>> THEN non_wildcard_owners
       ELSE IF non_global_owners # <<>> THEN non_global_owners
       ELSE owner_arg_list

\* The addresses of the notified owners (lines 570-574).
mail_to(owner_args) ==
    UNION { LET owner == GroupRow(owner_args[i][1])
            IN IF owner.email_address # None
               THEN {owner.email_address}
               ELSE owner.members
            : i \in 1..Len(owner_args) }

CreateRequestValidate(w, user, group, permission, argument) ==
    /\ pc[w] = "idle"
    /\ Len(requests) + Cardinality({v \in Workers : pc[v] = "cr_write"}) < MaxRequests
    /\ Len(statusChanges)
         + Cardinality({v \in Workers : pc[v] \in {"cr_write", "up_validate"}}) < MaxChanges
    /\ LET owners_by_arg_by_perm == get_owners_by_grantable_permission(grants, TRUE)
           owner_arg_list == get_owner_arg_list(permission, argument, owners_by_arg_by_perm)
           checked == create_request_check(group, permission, argument, owner_arg_list)
       IN /\ call' = [call EXCEPT ![w] =
                        [NoCall EXCEPT !.op = "create_request", !.user = user,
                           !.group = group, !.permission = permission,
                           !.argument = argument,
                           !.owner_arg_list = owner_arg_list,
                           !.global_owners =
                               OwnersOf(owners_by_arg_by_perm, GLOBAL_OWNERS, <<"*">>)]]
          /\ err' = [err EXCEPT ![w] = checked.raised]
          /\ eff' = [eff EXCEPT ![w] =
                       IF checked.auditors
                       THEN <<"assert_controllers_are_auditors">> ELSE <<>>]
          /\ pc' = [pc EXCEPT ![w] = IF checked.raised = None THEN "cr_write" ELSE "done"]
    /\ UNCHANGED <<grants, requests, statusChanges, comments, audited, nonAuditors>>

\* CreateRequestWrite dispatching the notification before it adds the rows.
CreateRequestWriteNotifyFirst(w) ==
    /\ pc[w] = "cr_write"
    /\ LET c == call[w]
           request == [requester |-> c.user, group |-> c.group,
                       permission |-> c.permission, argument |-> c.argument,
                       status |-> "pending"]
           request_id == Len(requests) + 1
           request_status_change ==
               [request |-> request_id, user |-> c.user, from_status |-> None,
                to_status |-> "pending"]
           notified == mailto_owner_arg_list(c.owner_arg_list, c.global_owners)
       IN /\ requests' = Append(requests, request)
          /\ statusChanges' = Append(statusChanges, request_status_change)
          /\ comments' = Append(comments,
                 [obj_pk |-> Len(statusChanges) + 1, user |-> c.user])
          /\ call' = [call EXCEPT ![w].request = request_id,
                                  ![w].mail_to = mail_to(notified)]
          /\ eff' = [eff EXCEPT ![w] =
                       @ \o <<"send_email", "request", "status_change", "comment">>]
    /\ pc' = [pc EXCEPT ![w] = "done"]
    /\ UNCHANGED <<grants, audited, nonAuditors, err>>

CreateRequestWrite(w) ==
    /\ pc[w] = "cr_write"
    /\ LET c == call[w]
           request == [requester |-> c.user, group |-> c.group,
                       permission |-> c.permission, argument |-> c.argument,
                       status |-> "pending"]
           request_id == Len(requests) + 1
           request_status_change ==
               [request |-> request_id, user |-> c.user, from_status |-> None,
                to_status |-> "pending"]
           notified == mailto_owner_arg_list(c.owner_arg_list, c.global_owners)
       IN /\ requests' = Append(requests, request)
          /\ statusChanges' = Append(statusChanges, request_status_change)
          /\ comments' = Append(comments,
                 [obj_pk |-> Len(statusChanges) + 1, user |-> c.user])
          /\ call' = [call EXCEPT ![w].request = request_id,
                                  ![w].mail_to = mail_to(notified)]
          /\ eff' = [eff EXCEPT ![w] =
                       @ \o <<"request", "status_change", "comment", "send_email">>]
    /\ pc' = [pc EXCEPT ![w] = "done"]
    /\ UNCHANGED <<grants, audited, nonAuditors, err>>

(***************************************************************************)
(* update_request.  The caller loads the request in its session; the call  *)
(* validates and commits the status change (lines 749-783), grants         *)
(* (785-790), then logs and notifies (792-828).                            *)
(***************************************************************************)
UpdateRequestLoad(w, request_id, user, new_status) ==
    /\ pc[w] = "idle"
    /\ request_id \in 1..Len(requests)
    /\ Len(statusChanges)
         + Cardinality({v \in Workers : pc[v] \in {"cr_write", "up_validate"}}) < MaxChanges
    /\ call' = [call EXCEPT ![w] =
                  [NoCall EXCEPT !.op = "update_request", !.user = user,
                     !.request = request_id,
                     !.group = requests[request_id].group,
                     !.permission = requests[request_id].permission,
                     !.argument = requests[request_id].argument,
                     !.status = requests[request_id].status,
                     !.new_status = new_status]]
    /\ pc' = [pc EXCEPT ![w] = "up_validate"]
    /\ UNCHANGED <<grants, requests, statusChanges, comments, audited, nonAuditors,
                   err, eff>>

\* nothing_to_do that never holds.
nothing_to_do_never(request_status, new_status) == FALSE

\* Lines 749-751: the request already has the new status.
nothing_to_do(request_status, new_status) == request_status = new_status

\* permission_status_change without its from_status.
permission_status_change_without_from(c) ==
    [request |-> c.request, user |-> c.user,
     from_status |-> None, to_status |-> c.new_status]

\* Lines 763-769: the new status-change row.
permission_status_change(c) ==
    [request |-> c.request, user |-> c.user,
     from_status |-> c.status, to_status |-> c.new_status]

\* update_request_check without the auditor check.
update_request_check_unaudited(c) == [raised |-> None, auditors |-> FALSE]

\* The validation of update_request (lines 753-757): the exception it raises
\* (or None) and whether it called assert_controllers_are_auditors.
update_request_check(c) ==
    IF c.new_status = "actioned" /\ c.permission \in audited
    THEN [raised |-> IF UserNotAuditor(c.group) THEN "UserNotAuditor" ELSE None,
          auditors |-> TRUE]
    ELSE [raised |-> None, auditors |-> FALSE]

UpdateRequestValidate(w) ==
    /\ pc[w] = "up_validate"
    /\ LET c == call[w]
           checked == update_request_check(c)
           consulted == IF checked.auditors
                        THEN <<"assert_controllers_are_auditors">> ELSE <<>>
       IN IF nothing_to_do(c.status, c.new_status)
          THEN \* nothing to do
               /\ pc' = [pc EXCEPT ![w] = "done"]
               /\ UNCHANGED <<requests, statusChanges, comments, err, eff>>
          ELSE IF checked.raised # None
          THEN /\ pc' = [pc EXCEPT ![w] = "done"]
               /\ err' = [err EXCEPT ![w] = checked.raised]
               /\ eff' = [eff EXCEPT ![w] = @ \o consulted]
               /\ UNCHANGED <<requests, statusChanges, comments>>
          ELSE /\ statusChanges' = Append(statusChanges, permission_status_change(c))
               /\ comments' = Append(comments,
                      [obj_pk |-> Len(statusChanges) + 1, user |-> c.user])
               /\ requests' = [requests EXCEPT ![c.request].status = c.new_status]
               /\ eff' = [eff EXCEPT ![w] =
                            @ \o consulted
                              \o <<"status_change", "comment", "status", "commit">>]
               /\ pc' = [pc EXCEPT ![w] =
                           IF c.new_status = "actioned" THEN "up_grant" ELSE "up_log"]
               /\ UNCHANGED err
    /\ UNCHANGED <<grants, audited, nonAuditors, call>>

\* UpdateRequestGrant without the except clause: IntegrityError propagates.
UpdateRequestGrantUncaught(w) ==
    /\ pc[w] = "up_grant"
    /\ LET c == call[w]
           res == grant_permission(grants, c.group, c.permission, c.argument)
       IN /\ grants' = res.rows
          /\ IF res.raised # None
             THEN /\ err' = [err EXCEPT ![w] = res.raised]
                  /\ pc' = [pc EXCEPT ![w] = "done"]
                  /\ UNCHANGED eff
             ELSE /\ eff' = [eff EXCEPT ![w] = @ \o <<"grant", "commit">>]
                  /\ pc' = [pc EXCEPT ![w] = "up_log"]
                  /\ UNCHANGED err
    /\ UNCHANGED <<requests, statusChanges, comments, audited, nonAuditors, call>>

UpdateRequestGrant(w) ==
    /\ pc[w] = "up_grant"
    /\ LET c == call[w]
           res == grant_permission(grants, c.group, c.permission, c.argument)
       IN /\ grants' = res.rows
          /\ IF res.raised = "IntegrityError"
             THEN \* except IntegrityError: session.rollback()
                  /\ eff' = [eff EXCEPT ![w] = @ \o <<"rollback">>]
                  /\ pc' = [pc EXCEPT ![w] = "up_log"]
                  /\ UNCHANGED err
             ELSE IF res.raised # None
             THEN /\ err' = [err EXCEPT ![w] = res.raised]
                  /\ pc' = [pc EXCEPT ![w] = "done"]
                  /\ UNCHANGED eff
             ELSE /\ eff' = [eff EXCEPT ![w] = @ \o <<"grant", "commit">>]
                  /\ pc' = [pc EXCEPT ![w] = "up_log"]
                  /\ UNCHANGED err
    /\ UNCHANGED <<requests, statusChanges, comments, audited, nonAuditors, call>>

UpdateRequestLog(w) ==
    /\ pc[w] = "up_log"
    /\ eff' = [eff EXCEPT ![w] = @ \o <<"audit_log", "commit", "send_email">>]
    /\ pc' = [pc EXCEPT ![w] = "done"]
    /\ UNCHANGED <<grants, requests, statusChanges, comments, audited, nonAuditors,
                   call, err>>

\* The call returns (or its exception reaches the caller).
Return(w) ==
    /\ pc[w] = "done"
    /\ pc' = [pc EXCEPT ![w] = "idle"]
    /\ call' = [call EXCEPT ![w] = NoCall]
    /\ err' = [err EXCEPT ![w] = None]
    /\ eff' = [eff EXCEPT ![w] = <<>>]
    /\ UNCHANGED <<grants, requests, statusChanges, comments, audited, nonAuditors>>

(***************************************************************************)
(* Calls made besides the workflow.                                        *)
(***************************************************************************)
\* A direct grant_permission call that succeeds (a failing one changes nothing).
GrantPermission(mapping) ==
    /\ LET res == grant_permission(grants, mapping.group, mapping.name, mapping.argument)
       IN /\ res.raised = None
          /\ grants' = res.rows
    /\ UNCHANGED <<requests, statusChanges, comments, audited, nonAuditors,
                   pc, call, err, eff>>

enable_permission_auditing(permission_name) ==
    /\ permission_name \notin audited
    /\ audited' = audited \cup {permission_name}
    /\ UNCHANGED <<grants, requests, statusChanges, comments, nonAuditors,
                   pc, call, err, eff>>

disable_permission_auditing(permission_name) ==
    /\ permission_name \in audited
    /\ audited' = audited \ {permission_name}
    /\ UNCHANGED <<grants, requests, statusChanges, comments, nonAuditors,
                   pc, call, err, eff>>

\* The controllers of a group change: one who is no auditor joins, or the last
\* such controller leaves.
ChangeControllers(group) ==
    /\ nonAuditors' = IF group \in nonAuditors
                      THEN nonAuditors \ {group} ELSE nonAuditors \cup {group}
    /\ UNCHANGED <<grants, requests, statusChanges, comments, audited,
                   pc, call, err, eff>>

(***************************************************************************)
(* The calls workers W make with inputs from the given sets.               *)
(***************************************************************************)
Calls(W, users, permissions, arguments, statuses) ==
    \/ \E w \in W, user \in users, group \in RequestGroups,
          permission \in permissions, argument \in arguments :
          CreateRequestValidate(w, user, group, permission, argument)
    \/ \E w \in W : CreateRequestWrite(w)
    \/ \E w \in W, request_id \in 1..MaxRequests, user \in Actors,
          new_status \in statuses :
          UpdateRequestLoad(w, request_id, user, new_status)
    \/ \E w \in W : UpdateRequestValidate(w)
    \/ \E w \in W : UpdateRequestGrant(w)
    \/ \E w \in W : UpdateRequestLog(w)
    \/ \E w \in W : Return(w)

\* One call at a time, with every input.
Next ==
    \/ Calls({"w1"}, Users, RequestPermissions, RequestArguments, REQUEST_STATUS_CHOICES)
    \/ \E mapping \in DirectGrants : GrantPermission(mapping)
    \/ enable_permission_auditing(pa)
    \/ disable_permission_auditing(pa)
    \/ \E group \in RequestGroups : ChangeControllers(group)

Spec == Init /\ [][Next]_vars

\* Calls running concurrently against the same store, for one triple.
NextConcurrent ==
    \/ Calls(Workers, {"u1"}, {pa}, {ax}, REQUEST_STATUS_CHOICES)
    \/ GrantPermission([group |-> "g1", name |-> pa, argument |-> ax])

SpecConcurrent == Init /\ [][NextConcurrent]_vars

\* Concurrent update_request(actioned) calls and direct grants.
NextGrant ==
    \/ Calls(Workers, {"u1"}, {pa}, {ax, aFree}, {"actioned"})
    \/ GrantPermission([group |-> "g1", name |-> pa, argument |-> ax])

SpecGrant == Init /\ [][NextGrant]_vars

(***************************************************************************)
(* get_grantable_permissions: the owner map reduced to the arguments that  *)
(* can be granted for each permission.                                     *)
(***************************************************************************)
\* sorted(set(...)) of strings.
RECURSIVE sorted_set(_)
sorted_set(S) ==
    IF S = {} THEN <<>>
    ELSE LET m == CHOOSE a \in S : \A b \in S \ {a} : StrLess(a, b)
         IN <<m>> \o sorted_set(S \ {m})

\* _reduce_args returning every argument, the wildcard included.
reduce_args_keeping_wildcard(perm_name, args, restricted_ownership_permissions) ==
    sorted_set(Range(args))

\* Lines 391-404: _reduce_args, with the restricted_ownership_permissions of
\* the enclosing call.
reduce_args(perm_name, args, restricted_ownership_permissions) ==
    LET non_wildcard_args == [i \in 1..Len(args) |-> args[i] # <<"*">>]
    IN IF /\ restricted_ownership_permissions # <<>>
          /\ perm_name \in Range(restricted_ownership_permissions)
          /\ \E i \in 1..Len(args) : non_wildcard_args[i]
       THEN sorted_set({a \in Range(args) : a # <<"*">>})
       ELSE IF \A i \in 1..Len(args) : non_wildcard_args[i]
       THEN sorted_set(Range(args))
       ELSE << <<"*">> >>

\* The map {permission: [argument, ...]} as the sequence of its entries.
get_grantable_permissions(grantRows, restricted_ownership_permissions) ==
    LET owners_by_arg_by_perm == get_owners_by_grantable_permission(grantRows, FALSE)
        permissions == Distinct([i \in 1..Len(owners_by_arg_by_perm) |->
                                    owners_by_arg_by_perm[i].perm])
    IN [i \in 1..Len(permissions) |->
           [perm |-> permissions[i],
            args |-> reduce_args(permissions[i],
                                 ArgsOf(owners_by_arg_by_perm, permissions[i]),
                                 restricted_ownership_permissions)]]

(***************************************************************************)
(* The resolver functions called on their own, and create_request called   *)
(* against stores with different grants.                                   *)
(***************************************************************************)
MaxDelegations == 2

pRoot == <<"p">>

\* The arguments of the PERMISSION_GRANT grants given to
\* filter_grantable_permissions.
DelegationArguments ==
    { <<"p", "*", "/", "x", "*">>,
      <<"p", "a">>,
      <<"p", "a", "/", "x">>,
      <<"p", "*", "/", "x">>,
      <<"p", "a", "/", "x", "/", "y">>,
      <<"p", "d", "/", "x">> }

DelegationLists ==
    UNION { [1..n -> { [group |-> "o1", name |-> PERMISSION_GRANT, argument |-> a]
                       : a \in DelegationArguments }]
            : n \in 0..MaxDelegations }

\* all_permissions: the enabled catalog, and one whose names are a prefix of
\* one another.
Catalogs ==
    { get_all_permissions(FALSE),
      << [name |-> pRoot, enabled |-> TRUE], [name |-> pa, enabled |-> TRUE] >> }

RestrictedLists == { <<>>, <<pa>>, <<pb, pa>> }

\* The PermissionMap rows a store may start with.
ResolverGrants ==
    << [group |-> "adm", name |-> PERMISSION_ADMIN, argument |-> <<>>],
       [group |-> "o1", name |-> PERMISSION_GRANT,
        argument |-> <<"p", "*", "/", "x", "*">>],
       [group |-> "o1", name |-> PERMISSION_GRANT, argument |-> <<"p", "a", "/", "x">>],
       [group |-> "o2", name |-> PERMISSION_GRANT, argument |-> <<"p", "a">>],
       [group |-> "o1", name |-> PERMISSION_GRANT, argument |-> <<"p", "b", "/", "y">>],
       [group |-> "adm", name |-> PERMISSION_GRANT, argument |-> <<"p", "a", "/", "y">>],
       [group |-> "off", name |-> PERMISSION_ADMIN, argument |-> <<>>] >>

InitResolver ==
    /\ \E S \in SUBSET Range(ResolverGrants) :
           grants = SelectSeq(ResolverGrants, LAMBDA r : r \in S)
    /\ requests = <<>>
    /\ statusChanges = <<>>
    /\ comments = <<>>
    /\ audited = {}
    /\ nonAuditors = {}
    /\ pc = [w \in Workers |-> "idle"]
    /\ call = [w \in Workers |-> NoCall]
    /\ err = [w \in Workers |-> None]
    /\ eff = [w \in Workers |-> <<>>]

FilterGrantablePermissions(w, grantList, all_permissions) ==
    /\ pc[w] = "idle"
    /\ call' = [call EXCEPT ![w] =
                  [NoCall EXCEPT !.op = "filter_grantable_permissions",
                     !.input = <<grantList, all_permissions>>,
                     !.result = filter_grantable_permissions(grantList, all_permissions)]]
    /\ pc' = [pc EXCEPT ![w] = "done"]
    /\ UNCHANGED <<grants, requests, statusChanges, comments, audited, nonAuditors,
                   err, eff>>

GetOwnersByGrantablePermission(w, separate_global) ==
    /\ pc[w] = "idle"
    /\ call' = [call EXCEPT ![w] =
                  [NoCall EXCEPT !.op = "get_owners_by_grantable_permission",
                     !.input = <<separate_global>>,
                     !.result = get_owners_by_grantable_permission(grants,
                                                                   separate_global)]]
    /\ pc' = [pc EXCEPT ![w] = "done"]
    /\ UNCHANGED <<grants, requests, statusChanges, comments, audited, nonAuditors,
                   err, eff>>

GetGrantablePermissions(w, restricted_ownership_permissions) ==
    /\ pc[w] = "idle"
    /\ call' = [call EXCEPT ![w] =
                  [NoCall EXCEPT !.op = "get_grantable_permissions",
                     !.input = <<restricted_ownership_permissions>>,
                     !.result = get_grantable_permissions(
                                    grants, restricted_ownership_permissions)]]
    /\ pc' = [pc EXCEPT ![w] = "done"]
    /\ UNCHANGED <<grants, requests, statusChanges, comments, audited, nonAuditors,
                   err, eff>>

GetOwnerArgList(w, permission, argument) ==
    /\ pc[w] = "idle"
    /\ call' = [call EXCEPT ![w] =
                  [NoCall EXCEPT !.op = "get_owner_arg_list",
                     !.input = <<permission, argument>>,
                     !.result = get_owner_arg_list(
                                    permission, argument,
                                    get_owners_by_grantable_permission(grants, FALSE))]]
    /\ pc' = [pc EXCEPT ![w] = "done"]
    /\ UNCHANGED <<grants, requests, statusChanges, comments, audited, nonAuditors,
                   err, eff>>

NextResolver ==
    \/ \E permission \in {pa, pd}, argument \in {ax, ay} :
          CreateRequestValidate("w1", "u1", "g1", permission, argument)
    \/ CreateRequestWrite("w1")
    \/ \E grantList \in DelegationLists, all_permissions \in Catalogs :
          FilterGrantablePermissions("w1", grantList, all_permissions)
    \/ \E separate_global \in BOOLEAN :
          GetOwnersByGrantablePermission("w1", separate_global)
    \/ \E restricted_ownership_permissions \in RestrictedLists :
          GetGrantablePermissions("w1", restricted_ownership_permissions)
    \/ \E permission \in {pa, pb, pd}, argument \in {ax, ay} :
          GetOwnerArgList("w1", permission, argument)
    \/ Return("w1")

SpecResolver == InitResolver /\ [][NextResolver]_vars

(***************************************************************************)
(* permission_intersection.  A permission of the lists is its (name,       *)
(* argument) pair; the unargumented permission has the empty argument.     *)
(***************************************************************************)
MaxPermissions == 2

\* Lines 844-847: {name: {argument: permission}}; a later permission of the
\* list replaces an earlier one with the same name and argument.
permission_list_to_dict(perms) ==
    [name \in {perms[i].name : i \in 1..Len(perms)} |->
        [argument \in {perms[i].argument : i \in {j \in 1..Len(perms) :
                                                      perms[j].name = name}} |->
            perms[CHOOSE i \in 1..Len(perms) :
                      /\ perms[i].name = name
                      /\ perms[i].argument = argument
                      /\ \A j \in (i + 1)..Len(perms) :
                             ~(perms[j].name = name /\ perms[j].argument = argument)]]]

permission_intersection(perms_a, perms_b) ==
    LET pdict_b == permission_list_to_dict(perms_b)
        added(perm) ==
            IF perm.name \notin DOMAIN pdict_b THEN {}
            ELSE IF perm.argument \in DOMAIN pdict_b[perm.name] THEN {perm}
            ELSE IF perm.argument = <<>> THEN {perm}
            ELSE IF <<"*">> \in DOMAIN pdict_b[perm.name] THEN {perm}
            ELSE IF <<>> \in DOMAIN pdict_b[perm.name] THEN {pdict_b[perm.name][<<>>]}
            ELSE IF perm.argument = <<"*">>
            THEN {pdict_b[perm.name][a] : a \in DOMAIN pdict_b[perm.name]}
            ELSE {}
    IN UNION {added(perms_a[i]) : i \in 1..Len(perms_a)}

\* The permission lists permission_intersection is called with.
PermissionLists ==
    UNION { [1..n -> [name : {pa, pb}, argument : {<<>>, <<"*">>, ax}]]
            : n \in 0..MaxPermissions }

PermissionIntersection(w, perms_a, perms_b) ==
    /\ pc[w] = "idle"
    /\ call' = [call EXCEPT ![w] =
                  [NoCall EXCEPT !.op = "permission_intersection",
                     !.input = <<perms_a, perms_b>>,
                     !.result = permission_intersection(perms_a, perms_b)]]
    /\ pc' = [pc EXCEPT ![w] = "done"]
    /\ UNCHANGED <<grants, requests, statusChanges, comments, audited, nonAuditors,
                   err, eff>>

NextIntersection ==
    \/ \E perms_a \in PermissionLists, perms_b \in PermissionLists :
          PermissionIntersection("w1", perms_a, perms_b)
    \/ Return("w1")

SpecIntersection == Init /\ [][NextIntersection]_vars

(***************************************************************************)
(* get_requests: a page of the requests that pass the filters, newest      *)
(* first, and their number.                                                *)
(***************************************************************************)
MaxLimit == 2
MaxOffset == 2

\* grouper.user_group.get_groups_by_user: the groups the user is a member of.
get_groups_by_user(user) ==
    {g \in GroupNames : GroupRow(g).enabled /\ user \in GroupRow(g).members}

\* Lines 604-611: the groups of group_ids that own the request's permission
\* and argument.
can_approve_request(request, group_ids, owners_by_arg_by_perm) ==
    LET owner_arg_list ==
            get_owner_arg_list(request.permission, request.argument,
                               owners_by_arg_by_perm)
    IN group_ids \cap {owner_arg_list[i][1] : i \in 1..Len(owner_arg_list)}

\* The ids n, n - 1, ..., 1: the requests ordered by requested_at, descending.
RECURSIVE Descending(_)
Descending(n) == IF n = 0 THEN <<>> ELSE <<n>> \o Descending(n - 1)

\* s[offset:limit] of Python, for offset and limit that are not negative.
slice(s, offset, limit) ==
    SubSeq(s, offset + 1, IF limit < Len(s) THEN limit ELSE Len(s))

\* The requests are returned by id; status_changes are the ids of the rows
\* loaded for them.
get_requests(status, limit, offset, owner, requester) ==
    LET all_requests ==
            SelectSeq(Descending(Len(requests)), LAMBDA i :
                /\ status # None => requests[i].status = status
                /\ requester # None => requests[i].requester = requester)
        owners_by_arg_by_perm == get_owners_by_grantable_permission(grants, FALSE)
        filtered ==
            IF owner # None
            THEN SelectSeq(all_requests, LAMBDA i :
                     can_approve_request(requests[i], get_groups_by_user(owner),
                                         owners_by_arg_by_perm) # {})
            ELSE all_requests
        page == slice(filtered, offset, limit)
    IN [requests |-> page,
        status_changes |-> {k \in 1..Len(statusChanges) :
                               statusChanges[k].request \in Range(page)},
        total |-> Len(filtered)]

GetRequests(w, status, limit, offset, owner, requester) ==
    /\ pc[w] = "idle"
    /\ call' = [call EXCEPT ![w] =
                  [NoCall EXCEPT !.op = "get_requests",
                     !.input = <<status, limit, offset, owner, requester>>,
                     !.result = get_requests(status, limit, offset, owner, requester)]]
    /\ pc' = [pc EXCEPT ![w] = "done"]
    /\ UNCHANGED <<grants, requests, statusChanges, comments, audited, nonAuditors,
                   err, eff>>

\* Requests are created and cancelled, and pages of them are read.
NextRequests ==
    \/ \E user \in Users, argument \in {ax, ay} :
          CreateRequestValidate("w1", user, "g1", pa, argument)
    \/ CreateRequestWrite("w1")
    \/ \E request_id \in 1..MaxRequests :
          UpdateRequestLoad("w1", request_id, "u2", "cancelled")
    \/ UpdateRequestValidate("w1")
    \/ UpdateRequestLog("w1")
    \/ GrantPermission([group |-> "adm", name |-> PERMISSION_ADMIN, argument |-> <<>>])
    \/ \E status \in {None, "pending"}, limit \in 0..MaxLimit, offset \in 0..MaxOffset,
          owner \in {None, "u1"}, requester \in {None, "u1"} :
          GetRequests("w1", status, limit, offset, owner, requester)
    \/ Return("w1")

SpecRequests == Init /\ [][NextRequests]_vars

(***************************************************************************)
(* Properties of the request workflow.                                     *)
(***************************************************************************)
SameTriple(r, group, permission, argument) ==
    r.group = group /\ r.permission = permission /\ r.argument = argument

\* The effects of a call that change the persistent state.
Mutations == {"request", "status_change", "comment", "status", "grant"}

\* C1: a request's status only ever moves pending -> actioned or pending ->
\* cancelled: no update_request call changes the status of an actioned or
\* cancelled request, and no call moves a request back to pending.
C1_StatusOnlyLeavesPending ==
    [][\A i \in 1..Len(requests) :
          /\ requests[i].status \in {"actioned", "cancelled"}
                => requests'[i].status = requests[i].status
          /\ requests'[i].status = "pending" => requests[i].status = "pending"]_vars

\* C2: in every reachable state, under any interleaving of create_request and
\* update_request calls, at most one request is pending for a given
\* (group, permission, argument).
C2_OnePendingPerTriple ==
    \A i, j \in 1..Len(requests) :
        ( /\ i # j
          /\ requests[i].status = "pending"
          /\ requests[j].status = "pending" )
        => ~SameTriple(requests[i], requests[j].group, requests[j].permission,
                       requests[j].argument)

\* C3: a create_request or update_request call that raises leaves the
\* persistent state as it was before the call: it has added no request,
\* status-change row, comment row or grant and changed no request status.
C3_FailedCallChangesNothing ==
    \A w \in Workers :
        (pc[w] = "done" /\ err[w] # None) => Range(eff[w]) \cap Mutations = {}

\* The PermissionMap row a call's request asks for.
GrantRow(c) == [group |-> c.group, name |-> c.permission, argument |-> c.argument]

Count(s, x) == Cardinality({i \in 1..Len(s) : s[i] = x})

\* Worker w takes the step of its call that starts at pc value from.
Steps(w, from) == pc[w] = from /\ pc'[w] # from

\* C4: update_request(request, "actioned") on a pending request of an audited
\* permission, for a group with a controller who is no auditor, raises
\* UserNotAuditor, leaves the request pending, and persists no status-change
\* row, no comment and no grant.
C4_AuditedActionRejected ==
    [][\A w \in Workers :
          ( /\ Steps(w, "up_validate")
            /\ call[w].status = "pending"
            /\ call[w].new_status = "actioned"
            /\ call[w].permission \in audited
            /\ call[w].group \in nonAuditors )
          => /\ pc'[w] = "done"
             /\ err'[w] = "UserNotAuditor"
             /\ requests'[call[w].request].status = "pending"
             /\ UNCHANGED <<grants, requests, statusChanges, comments>>
             /\ Range(eff'[w]) \cap Mutations = {}]_vars

C4_Witness ==
    \E w \in Workers :
        /\ pc[w] = "done"
        /\ call[w].op = "update_request"
        /\ call[w].status = "pending"
        /\ call[w].new_status = "actioned"
        /\ err[w] = "UserNotAuditor"
        /\ requests[call[w].request].status = "pending"

\* C5: actioning a pending request whose grant already exists raises no
\* error: the grant step adds nothing, the request ends actioned, the call has
\* added exactly one status-change row (pending -> actioned), and the store
\* holds exactly one grant for the triple.
C5_ActionWithExistingGrant ==
    /\ [][\A w \in Workers :
             ( /\ Steps(w, "up_grant")
               /\ call[w].status = "pending"
               /\ GrantRow(call[w]) \in Range(grants) )
             => /\ pc'[w] = "up_log"
                /\ err'[w] = None
                /\ "rollback" \in Range(eff'[w])
                /\ UNCHANGED <<grants, requests, statusChanges, comments>>]_vars
    /\ [](\A w \in Workers :
             ( /\ pc[w] = "done"
               /\ call[w].op = "update_request"
               /\ call[w].status = "pending"
               /\ "rollback" \in Range(eff[w]) )
             => /\ err[w] = None
                /\ requests[call[w].request].status = "actioned"
                /\ Count(eff[w], "status_change") = 1
                /\ statusChanges[Len(statusChanges)] =
                       [request |-> call[w].request, user |-> call[w].user,
                        from_status |-> "pending", to_status |-> "actioned"]
                /\ Count(grants, GrantRow(call[w])) = 1)

C5_Witness ==
    \E w \in Workers :
        /\ pc[w] = "done"
        /\ call[w].op = "update_request"
        /\ call[w].status = "pending"
        /\ "rollback" \in Range(eff[w])
        /\ requests[call[w].request].status = "actioned"

\* C6: under any interleaving of concurrent update_request(actioned) calls and
\* direct grant_permission calls, the store never holds two grants for the
\* same (group, permission, argument), no update_request call raises the
\* duplicate-grant conflict (IntegrityError), and a call that committed its
\* status change ends with its request actioned: with the grant in the store
\* and the transition logged and notified, or, for an argument outside
\* ARGUMENT_VALIDATION, with the AssertionError of grant_permission.
C6_GrantsUniqueUnderRaces ==
    /\ \A i, j \in 1..Len(grants) : i # j => grants[i] # grants[j]
    /\ \A w \in Workers :
          call[w].op = "update_request" =>
             /\ err[w] # "IntegrityError"
             /\ (pc[w] = "done" /\ "status" \in Range(eff[w])) =>
                   /\ requests[call[w].request].status = "actioned"
                   /\ \/ /\ err[w] = None
                         /\ GrantRow(call[w]) \in Range(grants)
                         /\ SubSeq(eff[w], Len(eff[w]) - 2, Len(eff[w])) =
                                <<"audit_log", "commit", "send_email">>
                      \/ /\ err[w] = "AssertionError"
                         /\ ~ARGUMENT_VALIDATION(call[w].argument)

\* Two update_request(actioned) calls on different requests for the same
\* triple have both completed: one granted, the other met the conflict.
C6_Witness ==
    \E w, v \in Workers :
        /\ pc[w] = "done" /\ pc[v] = "done"
        /\ call[w].op = "update_request" /\ call[v].op = "update_request"
        /\ call[w].request # call[v].request
        /\ GrantRow(call[w]) = GrantRow(call[v])
        /\ "grant" \in Range(eff[w])
        /\ "rollback" \in Range(eff[v])
        /\ err[w] = None /\ err[v] = None

\* Worker w takes the first step of a create_request call.
Creates(w) == pc[w] = "idle" /\ call'[w].op = "create_request"

\* Some owner entry of the resolved owner map has a pattern of the permission
\* that matches the argument.
OwnerMatched(permission, argument) ==
    \E e \in Range(get_owners_by_grantable_permission(grants, TRUE)) :
        e.perm = permission /\ matches_glob(e.arg, argument)

\* C7 as stated: create_request for a triple that has a pending request
\* raises RequestAlreadyExists and creates no second request.
C7_DuplicateRaisesAlreadyExists ==
    [][\A w \in Workers :
          ( /\ Creates(w)
            /\ existing_count(call'[w].group, call'[w].permission,
                              call'[w].argument) > 0 )
          => /\ err'[w] = "RequestAlreadyExists"
             /\ pc'[w] = "done"
             /\ UNCHANGED <<grants, requests, statusChanges, comments>>]_vars

\* C7, amended: create_request for a triple that has a pending request fails
\* and creates no second request, whoever asks: it raises
\* RequestAlreadyGranted when the group already holds the (permission,
\* argument) pair, and RequestAlreadyExists otherwise.
C7_DuplicateRejected ==
    [][\A w \in Workers :
          ( /\ Creates(w)
            /\ existing_count(call'[w].group, call'[w].permission,
                              call'[w].argument) > 0 )
          => /\ err'[w] = IF already_granted(call'[w].group, call'[w].permission,
                                             call'[w].argument)
                          THEN "RequestAlreadyGranted" ELSE "RequestAlreadyExists"
             /\ pc'[w] = "done"
             /\ UNCHANGED <<grants, requests, statusChanges, comments>>]_vars

\* A user other than the requester of the pending request was refused.
C7_Witness ==
    \E w \in Workers :
        /\ pc[w] = "done"
        /\ call[w].op = "create_request"
        /\ err[w] = "RequestAlreadyExists"
        /\ \E i \in 1..Len(requests) :
               /\ requests[i].status = "pending"
               /\ SameTriple(requests[i], call[w].group, call[w].permission,
                             call[w].argument)
               /\ requests[i].requester # call[w].user
        /\ Len(requests) = 1

\* C8: create_request raises RequestAlreadyGranted whenever the group's
\* permissions contain the (permission, argument) pair, whatever the pending
\* requests, the owners and the auditors are.
C8_AlreadyGrantedFirst ==
    [][\A w \in Workers :
          ( /\ Creates(w)
            /\ already_granted(call'[w].group, call'[w].permission, call'[w].argument) )
          => /\ err'[w] = "RequestAlreadyGranted"
             /\ pc'[w] = "done"
             /\ UNCHANGED <<grants, requests, statusChanges, comments>>]_vars

\* RequestAlreadyGranted was raised although a request is pending for the
\* triple and the auditor check would fail.
C8_Witness ==
    \E w \in Workers :
        /\ pc[w] = "done"
        /\ call[w].op = "create_request"
        /\ err[w] = "RequestAlreadyGranted"
        /\ existing_count(call[w].group, call[w].permission, call[w].argument) > 0
        /\ call[w].permission \in audited
        /\ call[w].group \in nonAuditors

\* C9 as stated: create_request raises NoOwnersAvailable exactly when no
\* owned pattern of the permission matches the argument.
C9_NoOwnersExactlyWhenUnmatched ==
    [][\A w \in Workers :
          Creates(w) =>
             ( err'[w] = "NoOwnersAvailable"
               <=> ~OwnerMatched(call'[w].permission, call'[w].argument) )]_vars

\* C9, amended: create_request raises NoOwnersAvailable exactly when the two
\* earlier checks pass (the pair is not granted, no request is pending) and
\* no owned pattern of the permission matches the argument; a request is
\* only created when some owner matched.
C9_NoOwnersWhenUnmatched ==
    [][\A w \in Workers :
          Creates(w) =>
             /\ err'[w] = "NoOwnersAvailable"
                <=> /\ ~already_granted(call'[w].group, call'[w].permission,
                                        call'[w].argument)
                    /\ existing_count(call'[w].group, call'[w].permission,
                                      call'[w].argument) = 0
                    /\ ~OwnerMatched(call'[w].permission, call'[w].argument)
             /\ pc'[w] = "cr_write"
                => /\ OwnerMatched(call'[w].permission, call'[w].argument)
                   /\ call'[w].owner_arg_list # <<>>]_vars

\* NoOwnersAvailable was raised for a permission that has owners of other
\* patterns.
C9_Witness ==
    \E w \in Workers :
        /\ pc[w] = "done"
        /\ call[w].op = "create_request"
        /\ err[w] = "NoOwnersAvailable"
        /\ \E e \in Range(get_owners_by_grantable_permission(grants, TRUE)) :
               e.perm = call[w].permission

\* C10 as stated: create_request for an audited permission and a group with
\* a controller who is no auditor raises UserNotAuditor.
C10_AuditedRaisesUserNotAuditor ==
    [][\A w \in Workers :
          ( /\ Creates(w)
            /\ call'[w].permission \in audited
            /\ call'[w].group \in nonAuditors )
          => /\ err'[w] = "UserNotAuditor"
             /\ pc'[w] = "done"]_vars

\* C10, amended: create_request for an audited permission succeeds only if
\* every controller of the group is an auditor; otherwise it fails and no
\* request is persisted, with UserNotAuditor when the three earlier checks
\* pass.  For a permission that is not audited the auditors are not consulted.
C10_AuditedNeedsAuditors ==
    [][\A w \in Workers :
          Creates(w) =>
             /\ ( call'[w].permission \in audited /\ call'[w].group \in nonAuditors )
                => /\ pc'[w] = "done"
                   /\ err'[w] # None
                   /\ UNCHANGED <<grants, requests, statusChanges, comments>>
                   /\ ( /\ ~already_granted(call'[w].group, call'[w].permission,
                                            call'[w].argument)
                        /\ existing_count(call'[w].group, call'[w].permission,
                                          call'[w].argument) = 0
                        /\ OwnerMatched(call'[w].permission, call'[w].argument) )
                      => err'[w] = "UserNotAuditor"
             /\ call'[w].permission \notin audited
                => /\ "assert_controllers_are_auditors" \notin Range(eff'[w])
                   /\ err'[w] # "UserNotAuditor"]_vars

C10_Witness ==
    \E w \in Workers :
        /\ pc[w] = "done"
        /\ call[w].op = "create_request"
        /\ err[w] = "UserNotAuditor"
        /\ requests = <<>>

(***************************************************************************)
(* Properties of the resolver and of the effects of the workflow.          *)
(***************************************************************************)
\* The catalog has a row of that name with enabled = FALSE.
Disabled(name) ==
    \E i \in 1..Len(PermissionRows) :
        PermissionRows[i].name = name /\ ~PermissionRows[i].enabled

\* C11: a disabled permission is never a key of the owner map returned by
\* get_owners_by_grantable_permission, and create_request for a disabled
\* permission never succeeds: it raises, and no request for it is stored.
C11_DisabledSuppressed ==
    /\ \A separate_global \in BOOLEAN :
          \A e \in Range(get_owners_by_grantable_permission(grants, separate_global)) :
              ~Disabled(e.perm)
    /\ \A i \in 1..Len(requests) : ~Disabled(requests[i].permission)
    /\ \A w \in Workers :
          (call[w].op = "create_request" /\ Disabled(call[w].permission))
          => (pc[w] = "done" /\ err[w] # None)

\* The status-change rows of request i, oldest first.
Trail(i) == SelectSeq(statusChanges, LAMBDA c : c.request = i)

\* C12: in every reachable state the status-change rows of each request
\* start with the creation row (no from_status, to_status pending), each
\* later row records a change and starts from the previous row's to_status,
\* and the last row's to_status is the request's status; every step keeps
\* the existing rows as they are and appends exactly one row for each
\* request it creates or whose status it changes.
C12_AuditTrailConsistent ==
    /\ [](\A i \in 1..Len(requests) :
             LET t == Trail(i)
             IN /\ t # <<>>
                /\ t[1].from_status = None
                /\ t[1].to_status = "pending"
                /\ \A k \in 2..Len(t) :
                       /\ t[k].from_status = t[k - 1].to_status
                       /\ t[k].to_status # t[k].from_status
                /\ t[Len(t)].to_status = requests[i].status)
    /\ [][/\ Len(statusChanges') >= Len(statusChanges)
          /\ SubSeq(statusChanges', 1, Len(statusChanges)) = statusChanges
          /\ Len(statusChanges') - Len(statusChanges) =
                 Cardinality({i \in 1..Len(requests') :
                                 \/ i > Len(requests)
                                 \/ requests'[i].status # requests[i].status})]_vars

\* Two requests with interleaved rows, one of them changed more than once.
C12_Witness ==
    /\ Len(requests) = 2
    /\ \E i, j \in 1..Len(requests) :
           /\ i # j
           /\ Len(Trail(i)) >= 3
           /\ Len(Trail(j)) >= 1
           /\ requests[i].status = "cancelled"

\* The effects of s that come before its k-th.
EarlierEffects(s, k) == {s[i] : i \in 1..(k - 1)}

\* Some status-change row of the request has a comment attached.
Commented(request_id) ==
    \E k \in 1..Len(statusChanges) :
        /\ statusChanges[k].request = request_id
        /\ \E j \in 1..Len(comments) : comments[j].obj_pk = k

\* C13: within one call the writes precede the effects that depend on them.
\* In update_request the status-change row, the comment and the status update
\* are committed before the grant step starts (and are in the store while it
\* is about to run) and before the requester is notified; in create_request
\* the request, its status-change row and its comment are in the store before
\* the approvers are notified.
C13_WritesBeforeEffects ==
    \A w \in Workers :
        /\ call[w].op = "update_request" =>
              /\ pc[w] = "up_grant" =>
                    /\ SubSeq(eff[w], Len(eff[w]) - 3, Len(eff[w])) =
                           <<"status_change", "comment", "status", "commit">>
                    /\ permission_status_change(call[w]) \in Range(statusChanges)
                    /\ Commented(call[w].request)
                    /\ requests[call[w].request].status = call[w].new_status
              /\ \A k \in 1..Len(eff[w]) :
                    eff[w][k] \in {"grant", "rollback", "send_email"} =>
                       \E j \in 1..(k - 1) :
                           /\ eff[w][j] = "commit"
                           /\ {"status_change", "comment", "status"}
                                  \subseteq EarlierEffects(eff[w], j)
        /\ call[w].op = "create_request" =>
              \A k \in 1..Len(eff[w]) :
                  eff[w][k] = "send_email" =>
                     /\ {"request", "status_change", "comment"}
                            \subseteq EarlierEffects(eff[w], k)
                     /\ call[w].request \in 1..Len(requests)
                     /\ Trail(call[w].request) # <<>>
                     /\ Commented(call[w].request)

\* An update_request call has granted and notified, for a request whose
\* creation notified the approvers.
C13_Witness ==
    \E w \in Workers :
        /\ pc[w] = "done"
        /\ call[w].op = "update_request"
        /\ "grant" \in Range(eff[w])
        /\ "send_email" \in Range(eff[w])
        /\ Trail(call[w].request)[1].to_status = "pending"

\* C14: update_request with new_status equal to the request's status does
\* nothing: it adds no status-change or comment row, grants nothing, writes no
\* audit-log entry, sends no notification, does not consult the auditors and
\* raises nothing, whatever the permission's audited flag is.
C14_SameStatusIsNoOp ==
    [][\A w \in Workers :
          ( /\ Steps(w, "up_validate")
            /\ call[w].new_status = requests[call[w].request].status )
          => /\ pc'[w] = "done"
             /\ err'[w] = None
             /\ eff'[w] = <<>>
             /\ UNCHANGED <<grants, requests, statusChanges, comments>>]_vars

\* update_request(request, "actioned") has returned for a request that was
\* already actioned, of an audited permission, for a group with a controller
\* who is no auditor.
C14_Witness ==
    \E w \in Workers :
        /\ pc[w] = "done"
        /\ call[w].op = "update_request"
        /\ call[w].new_status = "actioned"
        /\ call[w].status = "actioned"
        /\ call[w].permission \in audited
        /\ call[w].group \in nonAuditors
        /\ err[w] = None
        /\ eff[w] = <<>>

\* The group holds PERMISSION_ADMIN.
IsGlobalOwner(group) ==
    \E i \in 1..Len(grants) :
        grants[i].group = group /\ grants[i].name = PERMISSION_ADMIN

\* The addresses a notified group is reached at.
Addresses(group) ==
    IF GroupRow(group).email_address # None
    THEN {GroupRow(group).email_address}
    ELSE GroupRow(group).members

\* C15: a create_request call that succeeded has notified, among the matched
\* (group, pattern) entries: the entries with a pattern other than "*" when
\* there are any; otherwise the entries of groups that are no global owners
\* when there are any; otherwise all of them.
C15_NotifiedByTier ==
    \A w \in Workers :
        ( /\ pc[w] = "done"
          /\ call[w].op = "create_request"
          /\ err[w] = None )
        => LET matched == Range(call[w].owner_arg_list)
               non_wildcard == {e \in matched : e[2] # <<"*">>}
               non_global == {e \in matched : ~IsGlobalOwner(e[1])}
               tier == IF non_wildcard # {} THEN non_wildcard
                       ELSE IF non_global # {} THEN non_global
                       ELSE matched
           IN /\ "send_email" \in Range(eff[w])
              /\ call[w].mail_to = UNION {Addresses(e[1]) : e \in tier}

\* A request matched only through "*", by a global owner and by a group that
\* is none: only the latter was notified.
C15_Witness ==
    \E w \in Workers :
        /\ pc[w] = "done"
        /\ call[w].op = "create_request"
        /\ err[w] = None
        /\ \A e \in Range(call[w].owner_arg_list) : e[2] = <<"*">>
        /\ \E e \in Range(call[w].owner_arg_list) : IsGlobalOwner(e[1])
        /\ \E e \in Range(call[w].owner_arg_list) : ~IsGlobalOwner(e[1])
        /\ call[w].mail_to = {"o2@"}

\* The pair (name, argument) of x comes before that of y, as tuples.
PairLess(x, y) ==
    \/ StrLess(x.perm.name, y.perm.name)
    \/ (x.perm.name = y.perm.name /\ StrLess(x.arg, y.arg))

\* C16: the list filter_grantable_permissions returns holds no (permission,
\* argument) pair twice and is sorted by the tuple (permission name,
\* argument), whatever the grants and the catalog are.
C16_FilterSortedAndDistinct ==
    \A w \in Workers :
        (pc[w] = "done" /\ call[w].op = "filter_grantable_permissions")
        => LET result == call[w].result
           IN \A i, j \in 1..Len(result) : i < j => PairLess(result[i], result[j])

\* The part of a delegation argument before its first "/" (all of it when it
\* has none), and the part after it.
RECURSIVE BeforeSlash(_)
BeforeSlash(s) ==
    IF s = <<>> \/ Head(s) = "/" THEN <<>>
    ELSE <<Head(s)>> \o BeforeSlash(Tail(s))

RECURSIVE AfterSlash(_)
AfterSlash(s) ==
    IF s = <<>> THEN <<>>
    ELSE IF Head(s) = "/" THEN Tail(s)
    ELSE AfterSlash(Tail(s))

PatternOf(s) == IF "/" \in Range(s) THEN AfterSlash(s) ELSE <<"*">>

\* C17: filter_grantable_permissions emits, for each delegation and each
\* permission of the catalog whose name matches the part of the delegation
\* argument before its first "/", the pair of that permission and the rest
\* of the argument ("*" when there is no "/"), and nothing else: every
\* emitted permission is in the catalog, and each pair is emitted once per
\* delegation that yields it.
C17_FilterEmitsMatches ==
    \A w \in Workers :
        (pc[w] = "done" /\ call[w].op = "filter_grantable_permissions")
        => LET grantList == call[w].input[1]
               all_permissions == call[w].input[2]
               result == call[w].result
               patterns == {PatternOf(grantList[i].argument) : i \in 1..Len(grantList)}
           IN /\ \A k \in 1..Len(result) :
                    /\ result[k].perm \in Range(all_permissions)
                    /\ result[k].arg \in patterns
              /\ \A permission \in Range(all_permissions), pattern \in patterns :
                    Count(result, [perm |-> permission, arg |-> pattern]) =
                        Cardinality({i \in 1..Len(grantList) :
                            /\ PatternOf(grantList[i].argument) = pattern
                            /\ matches_glob(BeforeSlash(grantList[i].argument),
                                            permission.name)})

\* A delegation with two "/" and one with none were given: the first yields
\* the pattern "x/y", the second "*".
C17_Witness ==
    \E w \in Workers :
        /\ pc[w] = "done"
        /\ call[w].op = "filter_grantable_permissions"
        /\ {call[w].input[1][i].argument : i \in 1..Len(call[w].input[1])} =
               { <<"p", "a", "/", "x", "/", "y">>, <<"p", "a">> }
        /\ {[perm |-> call[w].result[k].perm.name, arg |-> call[w].result[k].arg]
               : k \in 1..Len(call[w].result)} =
               { [perm |-> pa, arg |-> <<"x", "/", "y">>],
                 [perm |-> pa, arg |-> <<"*">>] }

\* The names of the enabled permissions.
EnabledNames ==
    {PermissionRows[i].name : i \in {j \in 1..Len(PermissionRows) :
                                        PermissionRows[j].enabled}}

\* The core resolution records the group as owner of (perm, arg): through
\* PERMISSION_ADMIN, or else through one of its PERMISSION_GRANT grants.
CoreOwner(group, perm, arg, separate_global) ==
    /\ GroupRow(group).enabled
    /\ IF IsGlobalOwner(group)
       THEN /\ arg = <<"*">>
            /\ perm \in EnabledNames \/ (separate_global /\ perm = GLOBAL_OWNERS)
       ELSE /\ perm \in EnabledNames
            /\ \E i \in 1..Len(grants) :
                   /\ grants[i].group = group
                   /\ grants[i].name = PERMISSION_GRANT
                   /\ PatternOf(grants[i].argument) = arg
                   /\ matches_glob(BeforeSlash(grants[i].argument), perm)

\* C18: in the map get_owners_by_grantable_permission returns, the owners of
\* every (permission, argument) are the owners the core resolution records
\* for it (the groups with PERMISSION_ADMIN or a matching PERMISSION_GRANT
\* grant), all of them, followed by the owners the plugins contribute.
C18_PluginOwnersAdded ==
    \A w \in Workers :
        (pc[w] = "done" /\ call[w].op = "get_owners_by_grantable_permission")
        => LET result == call[w].result
               perms == {result[i].perm : i \in 1..Len(result)} \cup EnabledNames
               args == {result[i].arg : i \in 1..Len(result)}
                          \cup {PatternOf(grants[i].argument) : i \in 1..Len(grants)}
           IN \A perm \in perms, arg \in args :
                 LET owners == OwnersOf(result, perm, arg)
                     plugin == OwnersOf(PluginOwners, perm, arg)
                     n == Len(owners) - Len(plugin)
                 IN /\ n >= 0
                    /\ SubSeq(owners, n + 1, Len(owners)) = plugin
                    /\ {owners[i] : i \in 1..n} =
                           {group \in GroupNames :
                               CoreOwner(group, perm, arg, call[w].input[1])}

\* A (permission, argument) with an owner from the core resolution and one
\* from a plugin: both are owners, the plugin's last.
C18_Witness ==
    \E w \in Workers :
        /\ pc[w] = "done"
        /\ call[w].op = "get_owners_by_grantable_permission"
        /\ OwnersOf(call[w].result, pb, <<"*">>) = <<"adm", "o2">>
        /\ OwnersOf(call[w].result, pb, <<"y">>) = <<"o2">>

\* The argument patterns the owner map records for the permission.
OwnedArgs(perm) ==
    {e.arg : e \in {x \in Range(get_owners_by_grantable_permission(grants, FALSE)) :
                       x.perm = perm}}

\* The list holds its strings in increasing order, none of them twice.
StrictlySorted(s) == \A i \in 1..(Len(s) - 1) : StrLess(s[i], s[i + 1])

\* C19: for a permission in restricted_ownership_permissions with at least
\* one owned pattern other than "*", get_grantable_permissions returns
\* exactly the owned patterns other than "*", sorted and each once.
C19_RestrictedDropsWildcard ==
    \A w \in Workers :
        (pc[w] = "done" /\ call[w].op = "get_grantable_permissions")
        => LET restricted == Range(call[w].input[1])
               result == call[w].result
           IN /\ \A perm \in restricted :
                    OwnedArgs(perm) # {} => \E k \in 1..Len(result) : result[k].perm = perm
              /\ \A k \in 1..Len(result) :
                    ( /\ result[k].perm \in restricted
                      /\ OwnedArgs(result[k].perm) \ {<<"*">>} # {} )
                    => /\ Range(result[k].args) = OwnedArgs(result[k].perm) \ {<<"*">>}
                       /\ StrictlySorted(result[k].args)

\* A restricted permission owned under "*" and under two other patterns is
\* reduced to the two, in order.
C19_Witness ==
    \E w \in Workers :
        /\ pc[w] = "done"
        /\ call[w].op = "get_grantable_permissions"
        /\ pa \in Range(call[w].input[1])
        /\ OwnedArgs(pa) = { <<"*">>, <<"x">>, <<"x", "*">> }
        /\ \E k \in 1..Len(call[w].result) :
               /\ call[w].result[k].perm = pa
               /\ call[w].result[k].args = << <<"x">>, <<"x", "*">> >>

\* C20: for a permission that is not in restricted_ownership_permissions and
\* is owned under "*" and under at least one other pattern,
\* get_grantable_permissions returns "*" together with the other patterns,
\* sorted.
C20_UnrestrictedKeepsWildcard ==
    \A w \in Workers :
        (pc[w] = "done" /\ call[w].op = "get_grantable_permissions")
        => \A k \in 1..Len(call[w].result) :
              LET perm == call[w].result[k].perm
              IN ( /\ perm \notin Range(call[w].input[1])
                   /\ <<"*">> \in OwnedArgs(perm)
                   /\ OwnedArgs(perm) \ {<<"*">>} # {} )
                 => /\ Range(call[w].result[k].args) = OwnedArgs(perm)
                    /\ StrictlySorted(call[w].result[k].args)

\* C21: get_owner_arg_list(permission, argument) returns the pairs (group,
\* pattern) with pattern recorded under the permission in the owner map,
\* pattern matching the argument and group listed under pattern: each of
\* them, as often as the group is listed, and no other pair.
C21_OwnerArgListExact ==
    \A w \in Workers :
        (pc[w] = "done" /\ call[w].op = "get_owner_arg_list")
        => LET permission == call[w].input[1]
               argument == call[w].input[2]
               owner_map == get_owners_by_grantable_permission(grants, FALSE)
               result == call[w].result
           IN /\ \A k \in 1..Len(result) :
                    \E i \in 1..Len(owner_map) :
                        /\ owner_map[i].perm = permission
                        /\ owner_map[i].arg = result[k][2]
                        /\ owner_map[i].owner = result[k][1]
                        /\ matches_glob(result[k][2], argument)
              /\ \A i \in 1..Len(owner_map) :
                    ( /\ owner_map[i].perm = permission
                      /\ matches_glob(owner_map[i].arg, argument) )
                    => Count(result, <<owner_map[i].owner, owner_map[i].arg>>) =
                           Count(owner_map, owner_map[i])

\* The lookup for (pa, "x") returned the owners of two matching patterns and
\* left out the owner of a pattern that does not match and the owners of pb.
C21_Witness ==
    \E w \in Workers :
        /\ pc[w] = "done"
        /\ call[w].op = "get_owner_arg_list"
        /\ call[w].input = <<pa, ax>>
        /\ Range(call[w].result) = { <<"o1", <<"x", "*">> >>, <<"adm", <<"*">> >> }
        /\ \E e \in Range(get_owners_by_grantable_permission(grants, FALSE)) :
               e.perm = pb /\ e.arg = <<"y">>

\* C22: in permission_intersection(A, B), for every permission of A whose
\* argument is "*" and whose name occurs in B, every permission of B with
\* that name is in the result.
C22_WildcardTakesAllOfB ==
    \A w \in Workers :
        (pc[w] = "done" /\ call[w].op = "permission_intersection")
        => LET perms_a == call[w].input[1]
               perms_b == call[w].input[2]
           IN \A a \in Range(perms_a), b \in Range(perms_b) :
                 (a.argument = <<"*">> /\ b.name = a.name) => b \in call[w].result

\* C23: in permission_intersection(A, B), for a permission (p, a) of A with
\* a not empty and (p, a) not in B, whenever B has the unargumented (p, ""),
\* the result holds B's unargumented permission and not A's (p, a), whatever
\* else B has under the name p.
C23_UnargumentedOfBReturned ==
    \A w \in Workers :
        (pc[w] = "done" /\ call[w].op = "permission_intersection")
        => LET perms_a == call[w].input[1]
               perms_b == call[w].input[2]
           IN \A a \in Range(perms_a) :
                 ( /\ a.argument # <<>>
                   /\ a \notin Range(perms_b)
                   /\ [name |-> a.name, argument |-> <<>>] \in Range(perms_b) )
                 => /\ [name |-> a.name, argument |-> <<>>] \in call[w].result
                    /\ a \notin call[w].result

\* The ids of the requests that pass the filters of get_requests, newest
\* first.
RECURSIVE FilteredFrom(_, _, _, _)
FilteredFrom(n, status, owner, requester) ==
    IF n = 0 THEN <<>>
    ELSE (IF /\ status # None => requests[n].status = status
             /\ requester # None => requests[n].requester = requester
             /\ owner # None =>
                   \E e \in Range(get_owners_by_grantable_permission(grants, FALSE)) :
                       /\ e.perm = requests[n].permission
                       /\ matches_glob(e.arg, requests[n].argument)
                       /\ owner \in GroupRow(e.owner).members
          THEN <<n>> ELSE <<>>)
         \o FilteredFrom(n - 1, status, owner, requester)

\* C24: get_requests(limit, offset) returns filtered[offset : offset + limit]
\* of the filtered, newest-first list of requests, total is the length of
\* that list, and the pages at offsets 0, limit, 2 * limit, ... of a fixed
\* limit hold every filtered request exactly once.
C24_PageOfLimitAtOffset ==
    \A w \in Workers :
        (pc[w] = "done" /\ call[w].op = "get_requests")
        => LET status == call[w].input[1]
               limit == call[w].input[2]
               offset == call[w].input[3]
               owner == call[w].input[4]
               requester == call[w].input[5]
               filtered == FilteredFrom(Len(requests), status, owner, requester)
               last == IF offset + limit < Len(filtered)
                       THEN offset + limit ELSE Len(filtered)
           IN /\ call[w].result.total = Len(filtered)
              /\ call[w].result.requests = SubSeq(filtered, offset + 1, last)
              /\ limit > 0 =>
                    Flatten([k \in 1..Len(filtered) |->
                                get_requests(status, limit, (k - 1) * limit,
                                             owner, requester).requests])
                    = filtered

\* The grant of request i was applied by an update_request call on it: the
\* request was actioned before any other request for its triple, its argument
\* passes ARGUMENT_VALIDATION, and nobody grants the triple directly.
WorkflowGranted(i) ==
    /\ ARGUMENT_VALIDATION(requests[i].argument)
    /\ [group |-> requests[i].group, name |-> requests[i].permission,
        argument |-> requests[i].argument] \in Range(grants) \ DirectGrants
    /\ \E k \in 1..Len(statusChanges) :
           /\ statusChanges[k].request = i
           /\ statusChanges[k].to_status = "actioned"
           /\ \A j \in 1..(k - 1) :
                  ~( /\ statusChanges[j].to_status = "actioned"
                     /\ SameTriple(requests[statusChanges[j].request],
                                   requests[i].group, requests[i].permission,
                                   requests[i].argument) )

\* C25: whenever no update_request call is in progress, every actioned
\* request has its (group, permission, argument) in the grant store,
\* whatever its argument is, and no request that is cancelled or pending has
\* had its grant applied by the workflow.
C25_ActionedIffGranted ==
    (\A w \in Workers : pc[w] \notin {"up_validate", "up_grant", "up_log"})
    => \A i \in 1..Len(requests) :
          /\ requests[i].status = "actioned"
             => [group |-> requests[i].group, name |-> requests[i].permission,
                 argument |-> requests[i].argument] \in Range(grants)
          /\ requests[i].status \in {"cancelled", "pending"} => ~WorkflowGranted(i)

\* The entries the loop over the groups records (lines 328-359): the returned
\* map without the entries merged in from the plugins.
CoreEntries(result) == SubSeq(result, 1, Len(result) - Len(PluginOwners))

\* The (permission, pattern) pairs the entries record for the group.
PairsOf(entries, group) ==
    {[perm |-> e.perm, arg |-> e.arg] : e \in {x \in Range(entries) : x.owner = group}}

\* The (permission, pattern) pairs the group's PERMISSION_GRANT grants reduce to.
DelegatedPairs(group) ==
    {[perm |-> perm, arg |-> PatternOf(grants[i].argument)] :
        <<perm, i>> \in {x \in EnabledNames \X (1..Len(grants)) :
                            /\ grants[x[2]].group = group
                            /\ grants[x[2]].name = PERMISSION_GRANT
                            /\ matches_glob(BeforeSlash(grants[x[2]].argument), x[1])}}

\* In the entries, the GLOBAL_OWNERS bucket holds the enabled groups that hold
\* PERMISSION_ADMIN when separate_global is set and nothing otherwise; an
\* enabled group holding PERMISSION_ADMIN owns every enabled permission under
\* "*" and nothing else but its bucket entry, whatever PERMISSION_GRANT grants
\* it holds; an enabled group without PERMISSION_ADMIN owns exactly the pairs
\* its PERMISSION_GRANT grants reduce to; a disabled group owns nothing.
ResolvedByMarker(entries, separate_global) ==
    LET bucket == [perm |-> GLOBAL_OWNERS, arg |-> <<"*">>]
    IN /\ {e.owner : e \in {x \in Range(entries) : x.perm = GLOBAL_OWNERS}}
             = IF separate_global
               THEN {g \in GroupNames : GroupRow(g).enabled /\ IsGlobalOwner(g)}
               ELSE {}
       /\ \A g \in GroupNames :
             PairsOf(entries, g) =
                 IF ~GroupRow(g).enabled THEN {}
                 ELSE IF IsGlobalOwner(g)
                 THEN {[perm |-> p, arg |-> <<"*">>] : p \in EnabledNames}
                         \cup (IF separate_global THEN {bucket} ELSE {})
                 ELSE DelegatedPairs(g)

\* C26 as stated: in the map get_owners_by_grantable_permission returns, the
\* GLOBAL_OWNERS bucket holds only enabled groups with PERMISSION_ADMIN and
\* only when separate_global is set, such a group owns every enabled
\* permission under "*" only, and a group without PERMISSION_ADMIN owns
\* exactly the pairs its PERMISSION_GRANT grants reduce to.
C26_OwnersExactlyAsStated ==
    \A w \in Workers :
        (pc[w] = "done" /\ call[w].op = "get_owners_by_grantable_permission")
        => ResolvedByMarker(call[w].result, call[w].input[1])

\* C26, amended: the same holds of the entries the loop over the groups of
\* get_owners_by_grantable_permission records, that is of the returned map
\* without the owners the plugins contribute, which are merged in after
\* them whatever groups and pairs they name.
C26_AdminsOwnAllOthersDelegated ==
    \A w \in Workers :
        (pc[w] = "done" /\ call[w].op = "get_owners_by_grantable_permission")
        => ResolvedByMarker(CoreEntries(call[w].result), call[w].input[1])

\* separate_global is set, and the store holds PERMISSION_ADMIN for an enabled
\* group that also holds a PERMISSION_GRANT grant and for a disabled group,
\* and a PERMISSION_GRANT grant of a group without PERMISSION_ADMIN: the
\* bucket holds the enabled administrator alone, which owns nothing under the
\* pattern of its own grant, and the other group owns the pair of its grant.
C26_Witness ==
    \E w \in Workers :
        /\ pc[w] = "done"
        /\ call[w].op = "get_owners_by_grantable_permission"
        /\ call[w].input[1]
        /\ IsGlobalOwner("adm") /\ IsGlobalOwner("off")
        /\ \E i \in 1..Len(grants) :
               /\ grants[i].group = "adm"
               /\ grants[i].name = PERMISSION_GRANT
               /\ grants[i].argument = <<"p", "a", "/", "y">>
        /\ OwnersOf(call[w].result, GLOBAL_OWNERS, <<"*">>) = <<"adm">>
        /\ OwnersOf(call[w].result, pa, <<"y">>) = <<>>
        /\ OwnersOf(call[w].result, pa, <<"*">>) = <<"adm", "o2">>
        /\ DelegatedPairs("o1") = {[perm |-> pb, arg |-> <<"y">>]}

====
